---------------------------- MODULE Spec2Model ----------------------------
(***************************************************************************)
(* Model of the BCF reader (bcfplugin/rdwr/reader.py) and of the project   *)
(* node (src/bcf/project.py).                                              *)
(*                                                                         *)
(* A parsed XML record (the dictionary xmlschema returns) is a function    *)
(* from key strings to values; an absent key is a key outside DOMAIN.      *)
(* A builder that can raise is modelled by two                             *)
(* operators: excX(d), the exception the builder raises on d ("" when it   *)
(* returns), and buildX(d), the object it returns otherwise.               *)
(***************************************************************************)
EXTENDS Integers, Sequences, FiniteSets, TLC

\* None where a text is expected, and None where an object is expected
None == "None"
NoneObj == [kind |-> "None"]
NoExc == ""

\* reader.py:24
SUPPORTED_VERSIONS == {"2.1"}

(***************************************************************************)
(* Bounds of the model.                                                    *)
(***************************************************************************)
\* topic directories in one archive
MaxTopics == 2
\* viewpoint references in one archive, and in one markup record
MaxViewpoints == 2
\* comments in one markup record
MaxComments == 2
\* colour records in one coloring section
MaxColours == 2

(***************************************************************************)
(* Helpers.                                                                *)
(***************************************************************************)
Min(S) == CHOOSE x \in S : \A y \in S : x <= y

\* the first exception of a sequence of statements, or of the elements of
\* a list comprehension
FirstExc(excs) ==
    LET bad == {i \in DOMAIN excs : excs[i] # NoExc}
    IN  IF bad = {} THEN NoExc ELSE excs[Min(bad)]

SeqsUpTo(S, n) == UNION {[1..k -> S] : k \in 0..n}

\* d[key], raising KeyError when the key is absent
KeyExc(d, key) == IF key \in DOMAIN d THEN NoExc ELSE "KeyError"

getOptionalFromDict(d, desiredValue, empty) ==
    IF desiredValue \in DOMAIN d THEN d[desiredValue] ELSE empty

\* `x = getOptionalFromDict(d, key, None)` followed by `if x:` for a key
\* whose value is a nested record: true for a present, non-empty record
HasRecord(d, key) == key \in DOMAIN d /\ DOMAIN d[key] # {}

\* `if x:` for a text value or None
TruthyText(x) == x # None /\ x # ""

\* `x = getOptionalFromDict(d, key, None)` followed by `if x:` for a key
\* whose value is a text
HasText(d, key) == key \in DOMAIN d /\ TruthyText(d[key])

(***************************************************************************)
(* Conversions.  UUID() accepts the text of an identifier in either case   *)
(* and yields the same identifier for both; anything else is a ValueError. *)
(***************************************************************************)
GuidTexts == {"a1", "A1", "b2", "c3"}
BadGuid == "zz"

UUIDExc(text) == IF text \in GuidTexts THEN NoExc ELSE "ValueError"

UUID(text) ==
    CASE text \in {"a1", "A1"} -> [kind |-> "UUID", uuid |-> "a1"]
      [] text = "b2"           -> [kind |-> "UUID", uuid |-> "b2"]
      [] text = "c3"           -> [kind |-> "UUID", uuid |-> "c3"]
      [] OTHER                 -> [kind |-> "UUID", uuid |-> "invalid"]

\* UUID(int=0), reader.py:662
NullUUID == [kind |-> "UUID", uuid |-> "00"]

DateTexts == {"2019-05-01T10:00:00", "20190501T100000"}
BadDate == "yesterday-ish"

parseExc(text) == IF text \in DateTexts THEN NoExc ELSE "ValueError"

\* dateutil.parser.parse: both ISO 8601 spellings denote the same instant
parse(text) == [kind |-> "datetime", instant |-> "2019-05-01 10:00"]

Uri(text) == [kind |-> "Uri", uri |-> text]

(***************************************************************************)
(* Builders of the markup document.                                        *)
(***************************************************************************)
\* ViewpointReference(id, file, snapshot, index): the constructor keeps its
\* arguments; no viewpoint is attached yet, and no parent is given
ViewpointReference(id, file, snapshot, index) ==
    [kind |-> "ViewpointReference", id |-> id, file |-> file,
     snapshot |-> snapshot, index |-> index, viewpoint |-> NoneObj]

excComment(commentDict) ==
    FirstExc(<<
        (IF "@Guid" \in DOMAIN commentDict
            THEN UUIDExc(commentDict["@Guid"]) ELSE "KeyError"),
        (IF "Date" \in DOMAIN commentDict
            THEN parseExc(commentDict["Date"]) ELSE "KeyError"),
        KeyExc(commentDict, "Author"),
        (IF "ModifiedDate" \in DOMAIN commentDict
            THEN parseExc(commentDict["ModifiedDate"]) ELSE NoExc),
        KeyExc(commentDict, "Comment"),
        IF HasRecord(commentDict, "Viewpoint")
            THEN (IF "@Guid" \in DOMAIN commentDict["Viewpoint"]
            THEN UUIDExc(commentDict["Viewpoint"]["@Guid"]) ELSE "KeyError")
            ELSE NoExc
    >>)

\* comment.viewpoint is None or the placeholder
\* ViewpointReference(id=UUID(...)) created here
buildComment(commentDict) ==
    [kind |-> "Comment",
     id |-> UUID(commentDict["@Guid"]),
     date |-> parse(commentDict["Date"]),
     author |-> commentDict["Author"],
     comment |-> commentDict["Comment"],
     viewpoint |->
        IF HasRecord(commentDict, "Viewpoint")
        THEN [kind |-> "placeholder",
              id |-> UUID(commentDict["Viewpoint"]["@Guid"])]
        ELSE NoneObj,
     modDate |->
        IF "ModifiedDate" \in DOMAIN commentDict
        THEN parse(commentDict["ModifiedDate"]) ELSE NoneObj,
     modAuthor |-> getOptionalFromDict(commentDict, "ModifiedAuthor", "")]

excBimSnippet(snippetDict) ==
    FirstExc(<<
        KeyExc(snippetDict, "Reference"),
        KeyExc(snippetDict, "ReferenceSchema"),
        KeyExc(snippetDict, "@SnippetType")
    >>)

buildBimSnippet(snippetDict) ==
    [kind |-> "BimSnippet",
     type |-> snippetDict["@SnippetType"],
     external |-> getOptionalFromDict(snippetDict, "@isExternal", FALSE),
     reference |-> Uri(snippetDict["Reference"]),
     schema |-> Uri(snippetDict["ReferenceSchema"])]

excDocRef(docDict) ==
    IF HasText(docDict, "@Guid") THEN UUIDExc(docDict["@Guid"]) ELSE NoExc

\* docUri and docId are objects or None; docName is a text
buildDocRef(docDict) ==
    [kind |-> "DocumentReference",
     id |-> IF HasText(docDict, "@Guid")
            THEN UUID(docDict["@Guid"]) ELSE NoneObj,
     external |-> getOptionalFromDict(docDict, "@isExternal", FALSE),
     reference |-> IF HasText(docDict, "ReferencedDocument")
                   THEN Uri(docDict["ReferencedDocument"]) ELSE NoneObj,
     description |-> getOptionalFromDict(docDict, "Description", None)]

excRelatedTopic(relTopic) == (IF "@Guid" \in DOMAIN relTopic
            THEN UUIDExc(relTopic["@Guid"]) ELSE "KeyError")

docRefList(topicDict) ==
    getOptionalFromDict(topicDict, "DocumentReference", <<>>)

relatedList(topicDict) ==
    getOptionalFromDict(topicDict, "RelatedTopic", <<>>)

excTopic(topicDict) ==
    FirstExc(<<
        (IF "@Guid" \in DOMAIN topicDict
            THEN UUIDExc(topicDict["@Guid"]) ELSE "KeyError"),
        KeyExc(topicDict, "Title"),
        (IF "CreationDate" \in DOMAIN topicDict
            THEN parseExc(topicDict["CreationDate"]) ELSE "KeyError"),
        KeyExc(topicDict, "CreationAuthor"),
        (IF "ModifiedDate" \in DOMAIN topicDict
            THEN parseExc(topicDict["ModifiedDate"]) ELSE NoExc),
        (IF "DueDate" \in DOMAIN topicDict
            THEN parseExc(topicDict["DueDate"]) ELSE NoExc),
        (IF "BimSnippet" \in DOMAIN topicDict
            THEN excBimSnippet(topicDict["BimSnippet"]) ELSE NoExc),
        FirstExc([i \in DOMAIN docRefList(topicDict) |->
            excDocRef(docRefList(topicDict)[i])]),
        FirstExc([i \in DOMAIN relatedList(topicDict) |->
            excRelatedTopic(relatedList(topicDict)[i])])
    >>)

relatedGuid(relTopic) == UUID(relTopic["@Guid"])

buildTopic(topicDict) ==
    [kind |-> "Topic",
     id |-> UUID(topicDict["@Guid"]),
     title |-> topicDict["Title"],
     date |-> parse(topicDict["CreationDate"]),
     author |-> topicDict["CreationAuthor"],
     type |-> getOptionalFromDict(topicDict, "@TopicType", ""),
     status |-> getOptionalFromDict(topicDict, "@TopicStatus", ""),
     refs |-> getOptionalFromDict(topicDict, "ReferenceLink", <<>>),
     docRefs |-> [i \in DOMAIN docRefList(topicDict) |->
            buildDocRef(docRefList(topicDict)[i])],
     priority |-> getOptionalFromDict(topicDict, "Priority", ""),
     index |-> getOptionalFromDict(topicDict, "Index", -1),
     labels |-> getOptionalFromDict(topicDict, "Labels", <<>>),
     modDate |-> IF "ModifiedDate" \in DOMAIN topicDict
                 THEN parse(topicDict["ModifiedDate"]) ELSE NoneObj,
     modAuthor |-> getOptionalFromDict(topicDict, "ModifiedAuthor", ""),
     dueDate |-> IF "DueDate" \in DOMAIN topicDict
                 THEN parse(topicDict["DueDate"]) ELSE NoneObj,
     assignee |-> getOptionalFromDict(topicDict, "AssignedTo", ""),
     description |-> getOptionalFromDict(topicDict, "Description", ""),
     stage |-> getOptionalFromDict(topicDict, "Stage", ""),
     relatedTopics |-> [i \in DOMAIN relatedList(topicDict) |->
            relatedGuid(relatedList(topicDict)[i])],
     bimSnippet |-> IF "BimSnippet" \in DOMAIN topicDict
                    THEN buildBimSnippet(topicDict["BimSnippet"])
                    ELSE NoneObj]

excFile(fileDict) ==
    IF HasText(fileDict, "Date") THEN parseExc(fileDict["Date"]) ELSE NoExc

\* reference is a Uri, or the text "" of the default
buildFile(fileDict) ==
    [kind |-> "HeaderFile",
     ifcProjectId |-> getOptionalFromDict(fileDict, "@IfcProject", ""),
     ifcSpatialStructureElement |->
        getOptionalFromDict(fileDict, "@IfcSpatialStructureElement", ""),
     external |-> getOptionalFromDict(fileDict, "@isExternal", TRUE),
     filename |-> getOptionalFromDict(fileDict, "Filename", ""),
     time |-> IF HasText(fileDict, "Date")
              THEN parse(fileDict["Date"]) ELSE NoneObj,
     reference |-> IF HasText(fileDict, "Reference")
                   THEN Uri(fileDict["Reference"])
                   ELSE [kind |-> "str",
                         text |-> getOptionalFromDict(fileDict, "Reference", "")]]

\* the entries of the list that are not None
headerFiles(headerDict) ==
    SelectSeq(getOptionalFromDict(headerDict, "File", <<>>),
              LAMBDA f : f # NoneObj)

excHeader(headerDict) == FirstExc([i \in DOMAIN headerFiles(headerDict) |->
            excFile(headerFiles(headerDict)[i])])

buildHeader(headerDict) ==
    [kind |-> "Header", files |-> [i \in DOMAIN headerFiles(headerDict) |->
            buildFile(headerFiles(headerDict)[i])]]

excViewpointReference(viewpointDict) ==
    (IF "@Guid" \in DOMAIN viewpointDict
            THEN UUIDExc(viewpointDict["@Guid"]) ELSE "KeyError")

buildViewpointReference(viewpointDict) ==
    ViewpointReference(
        UUID(viewpointDict["@Guid"]),
        IF HasText(viewpointDict, "Viewpoint")
            THEN Uri(viewpointDict["Viewpoint"]) ELSE NoneObj,
        IF HasText(viewpointDict, "Snapshot")
            THEN Uri(viewpointDict["Snapshot"]) ELSE NoneObj,
        getOptionalFromDict(viewpointDict, "Index", -1))

(***************************************************************************)
(* buildMarkup.  markupFile is the markup.bcf of a topic directory: the    *)
(* record it parses to, or MissingFile when the directory holds none.      *)
(***************************************************************************)
MissingFile == [kind |-> "missing"]
\* the content of a file of an archive that is not extracted yet
NotExtracted == [kind |-> "not extracted"]

\* Markup(topic, header, comments, viewpoints): no parent is given.
\* source is not a field of the object: it names the topic directory whose
\* markup.bcf the object was built from (0 outside readBcfFile).
Markup(topic, header, comments, viewpoints) ==
    [kind |-> "Markup", topic |-> topic, header |-> header,
     comments |-> comments, viewpoints |-> viewpoints,
     containingObject |-> NoneObj, state |-> "ORIGINAL", source |-> 0]

\* Markup.getViewpointRefByGuid: the first viewpoint reference of the list
\* whose identifier equals guid, as a reference to that list element, or None
getViewpointRefByGuid(viewpoints, guid) ==
    LET hits == {i \in DOMAIN viewpoints : viewpoints[i].id = guid}
    IN  IF hits = {} THEN NoneObj
        ELSE [kind |-> "element", slot |-> Min(hits)]

\* reader.py:383-388: `if comment.viewpoint:` holds for the placeholder object
resolvedViewpointSkip(comment, viewpoints) == comment.viewpoint

resolvedViewpoint(comment, viewpoints) ==
    IF comment.viewpoint # NoneObj
    THEN getViewpointRefByGuid(viewpoints, comment.viewpoint.id)
    ELSE comment.viewpoint

resolveComments(comments, viewpoints) ==
    [i \in DOMAIN comments |->
        [comments[i] EXCEPT
            !.viewpoint = resolvedViewpoint(comments[i], viewpoints)]]

commentList(markupFile) ==
    getOptionalFromDict(markupFile, "Comment", <<>>)

viewpointList(markupFile) ==
    getOptionalFromDict(markupFile, "Viewpoints", <<>>)

excMarkup(markupFile) ==
    IF markupFile = MissingFile THEN "ResourceError"
    ELSE FirstExc(<<
        FirstExc([i \in DOMAIN commentList(markupFile) |->
            excComment(commentList(markupFile)[i])]),
        (IF "Topic" \in DOMAIN markupFile
            THEN excTopic(markupFile["Topic"]) ELSE "KeyError"),
        IF HasRecord(markupFile, "Header")
            THEN excHeader(markupFile["Header"]) ELSE NoExc,
        FirstExc([i \in DOMAIN viewpointList(markupFile) |->
            excViewpointReference(viewpointList(markupFile)[i])])
    >>)

buildMarkup(markupFile) ==
    LET comments == [i \in DOMAIN commentList(markupFile) |->
            buildComment(commentList(markupFile)[i])]
        topic == buildTopic(markupFile["Topic"])
        header == IF HasRecord(markupFile, "Header")
                  THEN buildHeader(markupFile["Header"]) ELSE NoneObj
        viewpoints == [i \in DOMAIN viewpointList(markupFile) |->
            buildViewpointReference(viewpointList(markupFile)[i])]
    IN  Markup(topic, header, resolveComments(comments, viewpoints),
               viewpoints)

(***************************************************************************)
(* Builders of the viewpoint document.                                     *)
(***************************************************************************)
buildViewSetupHints(vshDict) ==
    [kind |-> "ViewSetupHints",
     openingsVisible |-> getOptionalFromDict(vshDict, "@OpeningsVisible", FALSE),
     spacesVisible |-> getOptionalFromDict(vshDict, "@SpacesVisible", FALSE),
     spaceBoundariesVisible |->
        getOptionalFromDict(vshDict, "@SpaceBoundariesVisible", FALSE)]

buildComponent(componentDict) ==
    [kind |-> "Component",
     ifcId |-> getOptionalFromDict(componentDict, "@IfcGuid", None),
     originatingSystem |->
        getOptionalFromDict(componentDict, "OriginatingSystem", ""),
     authoringToolId |->
        getOptionalFromDict(componentDict, "AuthoringToolId", "")]

excComponentColour(ccDict) ==
    IF HasText(ccDict, "@Color") THEN KeyExc(ccDict, "Component") ELSE NoExc

\* None for a colour record without a colour value
buildComponentColour(ccDict) ==
    IF HasText(ccDict, "@Color")
    THEN [kind |-> "ComponentColour", colour |-> ccDict["@Color"],
          components |-> [i \in DOMAIN ccDict["Component"] |->
            buildComponent(ccDict["Component"][i])]]
    ELSE NoneObj

excComponents(componentsDict) ==
    FirstExc(<<
        IF HasRecord(componentsDict, "Selection")
            THEN KeyExc(componentsDict["Selection"], "Component") ELSE NoExc,
        KeyExc(componentsDict, "Visibility"),
        IF "Visibility" \in DOMAIN componentsDict
              /\ HasRecord(componentsDict["Visibility"], "Exceptions")
            THEN KeyExc(componentsDict["Visibility"]["Exceptions"], "Component")
            ELSE NoExc,
        IF HasRecord(componentsDict, "Coloring")
            THEN IF "Color" \in DOMAIN componentsDict["Coloring"]
                 THEN FirstExc([i \in DOMAIN componentsDict["Coloring"]["Color"] |->
            excComponentColour(componentsDict["Coloring"]["Color"][i])])
                 ELSE "KeyError"
            ELSE NoExc
    >>)

buildComponents(componentsDict) ==
    LET visibilityDict == componentsDict["Visibility"]
    IN  [kind |-> "Components",
         defaultVisibility |->
            getOptionalFromDict(visibilityDict, "@DefaultVisibility", TRUE),
         exceptions |->
            IF HasRecord(visibilityDict, "Exceptions")
            THEN [i \in DOMAIN visibilityDict["Exceptions"]["Component"] |->
            buildComponent(visibilityDict["Exceptions"]["Component"][i])]
            ELSE <<>>,
         selection |->
            IF HasRecord(componentsDict, "Selection")
            THEN [i \in DOMAIN componentsDict["Selection"]["Component"] |->
            buildComponent(componentsDict["Selection"]["Component"][i])]
            ELSE <<>>,
         viewSetupHints |->
            IF HasRecord(componentsDict, "ViewSetupHints")
            THEN buildViewSetupHints(componentsDict["ViewSetupHints"])
            ELSE NoneObj,
         colouring |->
            IF HasRecord(componentsDict, "Coloring")
            THEN [i \in DOMAIN componentsDict["Coloring"]["Color"] |->
            buildComponentColour(componentsDict["Coloring"]["Color"][i])]
            ELSE <<>>]

excPoint(pointDict) ==
    FirstExc(<<KeyExc(pointDict, "X"), KeyExc(pointDict, "Y"),
               KeyExc(pointDict, "Z")>>)

buildPoint(pointDict) ==
    [kind |-> "Point", x |-> pointDict["X"], y |-> pointDict["Y"],
     z |-> pointDict["Z"]]

excDirection(dirDict) == excPoint(dirDict)

buildDirection(dirDict) ==
    [kind |-> "Direction", x |-> dirDict["X"], y |-> dirDict["Y"],
     z |-> dirDict["Z"]]

excOrthogonalCamera(oCamDict) ==
    FirstExc(<<
        (IF "CameraViewPoint" \in DOMAIN oCamDict
            THEN excPoint(oCamDict["CameraViewPoint"]) ELSE "KeyError"),
        (IF "CameraDirection" \in DOMAIN oCamDict
            THEN excDirection(oCamDict["CameraDirection"]) ELSE "KeyError"),
        (IF "CameraUpVector" \in DOMAIN oCamDict
            THEN excDirection(oCamDict["CameraUpVector"]) ELSE "KeyError"),
        KeyExc(oCamDict, "ViewToWorldScale")
    >>)

buildOrthogonalCamera(oCamDict) ==
    [kind |-> "OrthogonalCamera",
     viewPoint |-> buildPoint(oCamDict["CameraViewPoint"]),
     direction |-> buildDirection(oCamDict["CameraDirection"]),
     upVector |-> buildDirection(oCamDict["CameraUpVector"]),
     viewWorldScale |-> oCamDict["ViewToWorldScale"]]

excPerspectiveCamera(pCamDict) ==
    FirstExc(<<
        (IF "CameraViewPoint" \in DOMAIN pCamDict
            THEN excPoint(pCamDict["CameraViewPoint"]) ELSE "KeyError"),
        (IF "CameraDirection" \in DOMAIN pCamDict
            THEN excDirection(pCamDict["CameraDirection"]) ELSE "KeyError"),
        (IF "CameraUpVector" \in DOMAIN pCamDict
            THEN excDirection(pCamDict["CameraUpVector"]) ELSE "KeyError"),
        KeyExc(pCamDict, "FieldOfView")
    >>)

buildPerspectiveCamera(pCamDict) ==
    [kind |-> "PerspectiveCamera",
     viewPoint |-> buildPoint(pCamDict["CameraViewPoint"]),
     direction |-> buildDirection(pCamDict["CameraDirection"]),
     upVector |-> buildDirection(pCamDict["CameraUpVector"]),
     fieldOfView |-> pCamDict["FieldOfView"]]

excLine(lineDict) ==
    FirstExc(<<(IF "StartPoint" \in DOMAIN lineDict
            THEN excPoint(lineDict["StartPoint"]) ELSE "KeyError"),
               (IF "EndPoint" \in DOMAIN lineDict
            THEN excPoint(lineDict["EndPoint"]) ELSE "KeyError")>>)

buildLine(lineDict) ==
    [kind |-> "Line", start |-> buildPoint(lineDict["StartPoint"]),
     end |-> buildPoint(lineDict["EndPoint"])]

excClippingPlane(clipDict) ==
    FirstExc(<<(IF "Location" \in DOMAIN clipDict
            THEN excPoint(clipDict["Location"]) ELSE "KeyError"),
               (IF "Direction" \in DOMAIN clipDict
            THEN excDirection(clipDict["Direction"]) ELSE "KeyError")>>)

buildClippingPlane(clipDict) ==
    [kind |-> "ClippingPlane", location |-> buildPoint(clipDict["Location"]),
     direction |-> buildDirection(clipDict["Direction"])]

excBitmap(bmDict) ==
    FirstExc(<<
        KeyExc(bmDict, "Bitmap"),
        KeyExc(bmDict, "Reference"),
        (IF "Location" \in DOMAIN bmDict
            THEN excPoint(bmDict["Location"]) ELSE "KeyError"),
        (IF "Normal" \in DOMAIN bmDict
            THEN excDirection(bmDict["Normal"]) ELSE "KeyError"),
        (IF "Up" \in DOMAIN bmDict
            THEN excDirection(bmDict["Up"]) ELSE "KeyError"),
        KeyExc(bmDict, "Height")
    >>)

buildBitmap(bmDict) ==
    [kind |-> "Bitmap",
     format |-> IF bmDict["Bitmap"] = "PNG" THEN "PNG" ELSE "JPG",
     reference |-> bmDict["Reference"],
     location |-> buildPoint(bmDict["Location"]),
     normal |-> buildDirection(bmDict["Normal"]),
     up |-> buildDirection(bmDict["Up"]),
     height |-> bmDict["Height"]]

\* Viewpoint(id, components, oCam, pCam, lines, clippingPlanes, bitmaps):
\* the constructor keeps its arguments; no parent is given
Viewpoint(id, components, oCam, pCam, lines, clippingPlanes, bitmaps) ==
    [kind |-> "Viewpoint", id |-> id, components |-> components,
     oCamera |-> oCam, pCamera |-> pCam, lines |-> lines,
     clippingPlanes |-> clippingPlanes, bitmaps |-> bitmaps,
     containingObject |-> NoneObj]

vpLines(vpDict) ==
    IF HasRecord(vpDict, "Lines")
    THEN getOptionalFromDict(vpDict["Lines"], "Line", <<>>) ELSE <<>>

vpClippingPlanes(vpDict) ==
    IF HasRecord(vpDict, "ClippingPlanes")
    THEN getOptionalFromDict(vpDict["ClippingPlanes"], "ClippingPlane", <<>>)
    ELSE <<>>

bitmapList(viewpointFile) ==
    getOptionalFromDict(viewpointFile, "Bitmap", <<>>)

\* viewpointFile is the record the viewpoint file parses to, or MissingFile
excViewpoint(viewpointFile) ==
    IF viewpointFile = MissingFile THEN "ResourceError"
    ELSE FirstExc(<<
        (IF "@Guid" \in DOMAIN viewpointFile
            THEN UUIDExc(viewpointFile["@Guid"]) ELSE "KeyError"),
        IF HasRecord(viewpointFile, "Components")
            THEN excComponents(viewpointFile["Components"]) ELSE NoExc,
        IF HasRecord(viewpointFile, "OrthogonalCamera")
            THEN excOrthogonalCamera(viewpointFile["OrthogonalCamera"])
            ELSE NoExc,
        IF HasRecord(viewpointFile, "PerspectiveCamera")
            THEN excPerspectiveCamera(viewpointFile["PerspectiveCamera"])
            ELSE NoExc,
        FirstExc([i \in DOMAIN vpLines(viewpointFile) |->
            excLine(vpLines(viewpointFile)[i])]),
        FirstExc([i \in DOMAIN vpClippingPlanes(viewpointFile) |->
            excClippingPlane(vpClippingPlanes(viewpointFile)[i])]),
        FirstExc([i \in DOMAIN bitmapList(viewpointFile) |->
            excBitmap(bitmapList(viewpointFile)[i])])
    >>)

buildViewpoint(viewpointFile) ==
    Viewpoint(
        UUID(viewpointFile["@Guid"]),
        IF HasRecord(viewpointFile, "Components")
            THEN buildComponents(viewpointFile["Components"]) ELSE NoneObj,
        IF HasRecord(viewpointFile, "OrthogonalCamera")
            THEN buildOrthogonalCamera(viewpointFile["OrthogonalCamera"])
            ELSE NoneObj,
        IF HasRecord(viewpointFile, "PerspectiveCamera")
            THEN buildPerspectiveCamera(viewpointFile["PerspectiveCamera"])
            ELSE NoneObj,
        [i \in DOMAIN vpLines(viewpointFile) |->
            buildLine(vpLines(viewpointFile)[i])],
        [i \in DOMAIN vpClippingPlanes(viewpointFile) |->
            buildClippingPlane(vpClippingPlanes(viewpointFile)[i])],
        [i \in DOMAIN bitmapList(viewpointFile) |->
            buildBitmap(bitmapList(viewpointFile)[i])])

(***************************************************************************)
(* project.py: the value wrapper and the project node.  A parent           *)
(* back-reference is None or names the node it points to.                  *)
(***************************************************************************)
ProjectRef == [kind |-> "ref", to |-> "Project"]

\* State.States
States == {"ORIGINAL", "ADDED", "MODIFIED", "DELETED"}

SimpleElement(value, xmlName, containingElement, state) ==
    [kind |-> "SimpleElement", value |-> value, xmlName |-> xmlName,
     containingObject |-> containingElement, state |-> state]

Project(uuid, name, extSchemaSrc) ==
    [kind |-> "Project", id |-> uuid,
     name |-> SimpleElement(name, "Name", ProjectRef, "ORIGINAL"),
     extSchemaSrc |->
        SimpleElement(extSchemaSrc, "ExtensionSchema", ProjectRef, "ORIGINAL"),
     topicList |-> <<>>,
     containingObject |-> NoneObj, state |-> "ORIGINAL"]

excProjectId(projectNode) == (IF "@ProjectId" \in DOMAIN projectNode
            THEN UUIDExc(projectNode["@ProjectId"]) ELSE "KeyError")

excProject(projectFile) ==
    IF projectFile = MissingFile THEN NoExc
    ELSE (IF "Project" \in DOMAIN projectFile
            THEN excProjectId(projectFile["Project"]) ELSE "KeyError")

\* None when the project file does not exist
buildProject(projectFile) ==
    IF projectFile = MissingFile THEN NoneObj
    ELSE Project(UUID(projectFile["Project"]["@ProjectId"]),
                 getOptionalFromDict(projectFile["Project"], "Name", ""),
                 getOptionalFromDict(projectFile, "ExtensionSchema", ""))

(***************************************************************************)
(* The version descriptor.                                                 *)
(***************************************************************************)
\* what XMLSchema.is_valid answers for bcf.version: the VersionId attribute
\* is required
versionIsValid(versionFile) == "@VersionId" \in DOMAIN versionFile

excGetVersion(versionFile) ==
    IF versionFile = MissingFile THEN "ValueError" ELSE NoExc

getVersion(versionFile) ==
    IF ~versionIsValid(versionFile) THEN None
    ELSE versionFile["@VersionId"]

\* validateFile: "" when the file validates against its schema, an error text
\* otherwise; a file validates when it exists and holds what its schema
\* requires, which is what the builder reads without a default
validateFile(file, exc) ==
    IF file = MissingFile THEN "could not be validated"
    ELSE IF exc # NoExc THEN "could not be validated"
    ELSE ""

excVersionFile(versionFile) ==
    IF versionIsValid(versionFile) THEN NoExc ELSE "invalid"

(***************************************************************************)
(* The archives the loader is run on.                                      *)
(***************************************************************************)
VersionFiles ==
    {MissingFile, [DetailedVersion |-> "2.1"]}
        \cup {("@VersionId" :> v) : v \in {"2.1", "2.0", "3.0"}}

ProjectFiles ==
    {MissingFile,
     [Project |-> ("@ProjectId" :> "a1") @@ [Name |-> "Tower"],
      ExtensionSchema |-> "extensions.xsd"],
     [Project |-> ("@ProjectId" :> "B2")],
     [Project |-> [Name |-> "Tower"]]}

okTopic ==
    ("@Guid" :> "a1") @@
    [Title |-> "Clash", CreationDate |-> "2019-05-01T10:00:00",
     CreationAuthor |-> "a@b.c"]

okComment ==
    ("@Guid" :> "b2") @@
    [Date |-> "20190501T100000", Author |-> "a@b.c", Comment |-> "see view"]

commentOn(guidText) == okComment @@ [Viewpoint |-> ("@Guid" :> guidText)]

okPoint == [X |-> 1, Y |-> 2, Z |-> 3]

okOrthogonalCamera ==
    [CameraViewPoint |-> okPoint, CameraDirection |-> okPoint,
     CameraUpVector |-> okPoint, ViewToWorldScale |-> 1]

okPerspectiveCamera ==
    [CameraViewPoint |-> okPoint, CameraDirection |-> okPoint,
     CameraUpVector |-> okPoint, FieldOfView |-> 60]

\* the viewpoint files of a topic directory, by name; any other name is
\* the name of no file
viewpointFileNames ==
    {"ortho.bcfv", "both.bcfv", "nofield.bcfv", "badguid.bcfv", "gone.bcfv"}

viewpointFileNamed(name) ==
    CASE name = "ortho.bcfv" ->
            ("@Guid" :> "a1") @@ [OrthogonalCamera |-> okOrthogonalCamera]
      [] name = "both.bcfv" ->
            ("@Guid" :> "b2") @@
            [OrthogonalCamera |-> okOrthogonalCamera,
             PerspectiveCamera |-> okPerspectiveCamera]
      [] name = "nofield.bcfv" ->
            ("@Guid" :> "a1") @@
            [PerspectiveCamera |->
                [CameraViewPoint |-> okPoint, CameraDirection |-> okPoint,
                 FieldOfView |-> 60]]
      [] name = "badguid.bcfv" ->
            ("@Guid" :> BadGuid) @@ [OrthogonalCamera |-> okOrthogonalCamera]
      [] OTHER -> MissingFile

\* the viewpoint records of a markup: each names a viewpoint file under the
\* identifier of that file's viewpoint, and one names no file
loaderViewpointDicts ==
    {("@Guid" :> "a1")}
        \cup {("@Guid" :> (IF f = "both.bcfv" THEN "b2" ELSE "a1"))
                @@ [Viewpoint |-> f] : f \in viewpointFileNames}

loaderCommentLists == {<<>>, <<commentOn("A1")>>}

\* the markup files with at most n viewpoint references
loaderMarkupFiles(n) ==
    {MissingFile,
     [Comment |-> <<okComment>>],
     [Topic |-> [Title |-> "Clash"]],
     [Topic |-> okTopic],
     [Topic |-> okTopic, Header |-> [File |-> <<[Filename |-> "a.ifc"]>>]]}
        \cup {[Topic |-> okTopic, Comment |-> cs, Viewpoints |-> vs] :
                cs \in loaderCommentLists,
                vs \in SeqsUpTo(loaderViewpointDicts, n)}

\* util.getDirectories: the topic directories, each once, in some order
directoryLists ==
    {dirs \in SeqsUpTo(1..MaxTopics, MaxTopics) :
        \A i, j \in DOMAIN dirs : i # j => dirs[i] # dirs[j]}

(***************************************************************************)
(* readBcfFile.                                                            *)
(***************************************************************************)
VARIABLES
    pc,                 \* the position of readBcfFile
    versionFile,        \* bcf.version of the extracted archive
    proj,               \* the local proj
    topicDirectories,   \* the local topicDirectories
    topicIdx,           \* the position of `for topic in topicDirectories`
    markup,             \* the local markup
    vpIdx,              \* the position of `for vpRef in markup.viewpoints`
    result,             \* what readBcfFile returned or raised
    bcfDir,             \* the module-level bcfDir
    built,              \* how many objects of each kind were built
    diag,               \* the diagnostics printed
    vpCount             \* viewpoint references read so far

loaderVars ==
    <<pc, versionFile, proj, topicDirectories, topicIdx, markup, vpIdx,
      result, bcfDir, built, diag, vpCount>>

VARIABLES
    bKind,              \* the builder that is applied
    bIn,                \* the record it is applied to
    bOut,               \* the object it returned
    bExc,               \* the exception it raised, "" for none
    bDone               \* whether it has been applied

builderVars == <<bKind, bIn, bOut, bExc, bDone>>

VARIABLES
    mKind,              \* the part of the data model that is worked on
    project,            \* a Project in the hands of the editing layer
    heap,               \* the objects of the data model, by address
    simpleList,         \* a SimpleList
    ret,                \* the last call, what it returned or raised
    calls               \* calls and assignments so far

modelVars == <<mKind, project, heap, simpleList, ret, calls>>

vars == <<loaderVars, builderVars, modelVars>>

\* the data model is not worked on
ModelIdle ==
    /\ mKind = "none"
    /\ project = NoneObj
    /\ heap = <<>>
    /\ simpleList = NoneObj
    /\ ret = NoneObj
    /\ calls = 0

\* no builder is applied on its own
BuilderIdle ==
    /\ bKind = "none"
    /\ bIn = NoneObj
    /\ bOut = NoneObj
    /\ bExc = NoExc
    /\ bDone = FALSE

Pending == [kind |-> "pending", value |-> "", cause |-> ""]
Returned(value, cause) == [kind |-> "returned", value |-> value, cause |-> cause]
Raised(exc, cause) == [kind |-> "raised", value |-> exc, cause |-> cause]

Diag(what, topic, vp) == [what |-> what, topic |-> topic, vp |-> vp]

LoaderInit ==
    /\ pc = "Unopened"
    /\ versionFile = NotExtracted
    /\ proj = NoneObj
    /\ topicDirectories = <<>>
    /\ topicIdx = 0
    /\ markup = NoneObj
    /\ vpIdx = 0
    /\ result = Pending
    /\ bcfDir = ""
    /\ built = [project |-> 0, markup |-> 0, viewpoint |-> 0]
    /\ diag = {}
    /\ vpCount = 0

\* reader.py:624-636: a schema file could not be copied
CopySchemasFails ==
    /\ pc = "Unopened"
    /\ pc' = "Aborted"
    /\ result' = Returned("None", "schemas")
    /\ diag' = diag \cup {Diag("schemas", 0, 0)}
    /\ UNCHANGED <<versionFile, proj, topicDirectories, topicIdx, markup,
                   vpIdx, bcfDir, built, vpCount>>
    /\ UNCHANGED <<builderVars, modelVars>>

\* a mutant: the module-level bcfDir is set as soon as the archive is
\* extracted
extractSetsBcfDir ==
    /\ pc = "Unopened"
    /\ \E opens \in BOOLEAN, vf \in VersionFiles :
        IF opens
        THEN /\ pc' = "Extracted"
             /\ versionFile' = vf
             /\ bcfDir' = "extracted"
             /\ result' = result
        ELSE /\ pc' = "Aborted"
             /\ versionFile' = versionFile
             /\ bcfDir' = bcfDir
             /\ result' = Raised("BadZipFile", "extract")
    /\ UNCHANGED <<proj, topicDirectories, topicIdx, markup, vpIdx,
                   built, diag, vpCount>>
    /\ UNCHANGED <<builderVars, modelVars>>

\* reader.py:638, 55-68: the archive is extracted, or ZipFile raises
extractFileToTmp ==
    /\ pc = "Unopened"
    /\ \E opens \in BOOLEAN, vf \in VersionFiles :
        IF opens
        THEN /\ pc' = "Extracted"
             /\ versionFile' = vf
             /\ result' = result
        ELSE /\ pc' = "Aborted"
             /\ versionFile' = versionFile
             /\ result' = Raised("BadZipFile", "extract")
    /\ UNCHANGED <<proj, topicDirectories, topicIdx, markup, vpIdx,
                   bcfDir, built, diag, vpCount>>
    /\ UNCHANGED <<builderVars, modelVars>>

\* a mutant: the version gate lets every version through
versionOutcomeAny(vf, prints) ==
    IF vf = MissingFile
        THEN IF prints THEN Returned("None", "no version file")
                       ELSE Raised("TypeError", "no version file")
    ELSE IF validateFile(vf, excVersionFile(vf)) # ""
        THEN IF prints THEN Returned("None", "version file invalid")
                       ELSE Raised("NameError", "version file invalid")
    ELSE Pending

\* a mutant: a missing version descriptor is only reported
versionOutcomeLenient(vf, prints) ==
    IF vf = MissingFile THEN Pending
    ELSE IF validateFile(vf, excVersionFile(vf)) # ""
        THEN IF prints THEN Returned("None", "version file invalid")
                       ELSE Raised("NameError", "version file invalid")
    ELSE IF getVersion(vf) \notin SUPPORTED_VERSIONS
        THEN IF prints THEN Returned("None", "version unsupported")
                       ELSE Raised("NameError", "version unsupported")
    ELSE Pending

\* The error branches of the version check print through util.printErr with
\* a `file` keyword (reader.py:646) and through pprint, which is imported
\* only under DEBUG (reader.py:30, 651, 655): each either prints and lets
\* readBcfFile return None, or raises.
versionOutcome(vf, prints) ==
    IF vf = MissingFile
        THEN IF prints THEN Returned("None", "no version file")
                       ELSE Raised("TypeError", "no version file")
    ELSE IF validateFile(vf, excVersionFile(vf)) # ""
        THEN IF prints THEN Returned("None", "version file invalid")
                       ELSE Raised("NameError", "version file invalid")
    ELSE IF excGetVersion(vf) # NoExc
        THEN Raised(excGetVersion(vf), "no version file")
    ELSE IF getVersion(vf) \notin SUPPORTED_VERSIONS
        THEN IF prints THEN Returned("None", "version unsupported")
                       ELSE Raised("NameError", "version unsupported")
    ELSE Pending

\* reader.py:643-658
checkVersion ==
    /\ pc = "Extracted"
    /\ \E prints \in BOOLEAN :
        LET outcome == versionOutcome(versionFile, prints)
        IN  /\ result' = outcome
            /\ pc' = IF outcome = Pending THEN "VersionChecked" ELSE "Aborted"
            /\ diag' = IF outcome # Pending /\ prints
                       THEN diag \cup {Diag(outcome.cause, 0, 0)} ELSE diag
    /\ UNCHANGED <<versionFile, proj, topicDirectories, topicIdx, markup,
                   vpIdx, bcfDir, built, vpCount>>
    /\ UNCHANGED <<builderVars, modelVars>>

\* reader.py:660-670: the default project, replaced by the one built from
\* project.bcfp when the archive holds that file
buildProjectStep ==
    /\ pc = "VersionChecked"
    /\ \E projectFile \in ProjectFiles :
        IF projectFile = MissingFile
        THEN /\ proj' = Project(NullUUID, "", None)
             /\ built' = [built EXCEPT !.project = @ + 1]
             /\ pc' = "ProjectBuilt"
             /\ UNCHANGED <<result, diag>>
        ELSE /\ diag' = IF validateFile(projectFile, excProject(projectFile)) # ""
                        THEN diag \cup {Diag("project invalid", 0, 0)}
                        ELSE diag
             /\ IF excProject(projectFile) # NoExc
                THEN /\ proj' = Project(NullUUID, "", None)
                     /\ built' = [built EXCEPT !.project = @ + 1]
                     /\ result' = Raised(excProject(projectFile), "project")
                     /\ pc' = "Aborted"
                ELSE /\ proj' = buildProject(projectFile)
                     /\ built' = [built EXCEPT !.project = @ + 2]
                     /\ result' = result
                     /\ pc' = "ProjectBuilt"
    /\ UNCHANGED <<versionFile, topicDirectories, topicIdx, markup, vpIdx,
                   bcfDir, vpCount>>
    /\ UNCHANGED <<builderVars, modelVars>>

\* reader.py:672-675
getDirectories ==
    /\ pc = "ProjectBuilt"
    /\ \E dirs \in directoryLists : topicDirectories' = dirs
    /\ topicIdx' = 1
    /\ pc' = "TopicsBuilt"
    /\ UNCHANGED <<versionFile, proj, markup, vpIdx, result, bcfDir,
                   built, diag, vpCount>>
    /\ UNCHANGED <<builderVars, modelVars>>

\* reader.py:675-687: the markup of the next topic directory is validated
\* and built; an exception of buildMarkup leaves readBcfFile
buildMarkupStep ==
    /\ pc = "TopicsBuilt"
    /\ topicIdx <= Len(topicDirectories)
    /\ \E markupFile \in loaderMarkupFiles(MaxViewpoints - vpCount) :
        /\ diag' = IF validateFile(markupFile, excMarkup(markupFile)) # ""
                   THEN diag \cup {Diag("markup invalid", topicIdx, 0)}
                   ELSE diag
        /\ IF excMarkup(markupFile) # NoExc
           THEN /\ result' = Raised(excMarkup(markupFile), "markup")
                /\ pc' = "Aborted"
                /\ UNCHANGED <<markup, vpIdx, built, vpCount>>
           ELSE /\ markup' = [buildMarkup(markupFile) EXCEPT
                                !.source = topicDirectories[topicIdx]]
                /\ vpIdx' = 1
                /\ built' = [built EXCEPT !.markup = @ + 1]
                /\ vpCount' = vpCount + Len(markup'.viewpoints)
                /\ pc' = "Viewpoints"
                /\ result' = result
    /\ UNCHANGED <<versionFile, proj, topicDirectories, topicIdx, bcfDir>>
    /\ UNCHANGED <<builderVars, modelVars>>

\* the exception of one pass of the loop body of reader.py:692-704
excViewpointOf(vpRef) ==
    IF vpRef.file = NoneObj THEN "AttributeError"
    ELSE excViewpoint(viewpointFileNamed(vpRef.file.uri))

\* a mutant: the except clause is missing
viewpointStepNoExcept ==
    /\ pc = "Viewpoints"
    /\ vpIdx <= Len(markup.viewpoints)
    /\ LET exc == excViewpointOf(markup.viewpoints[vpIdx])
       IN  IF exc # NoExc
           THEN /\ result' = Raised(exc, "viewpoint")
                /\ pc' = "Aborted"
                /\ UNCHANGED <<markup, vpIdx, built, diag>>
           ELSE /\ markup' = [markup EXCEPT !.viewpoints[vpIdx].viewpoint =
                    buildViewpoint(
                        viewpointFileNamed(markup.viewpoints[vpIdx].file.uri))]
                /\ built' = [built EXCEPT !.viewpoint = @ + 1]
                /\ vpIdx' = vpIdx + 1
                /\ UNCHANGED <<pc, result, diag>>
    /\ UNCHANGED <<versionFile, proj, topicDirectories, topicIdx, bcfDir,
                   vpCount>>
    /\ UNCHANGED <<builderVars, modelVars>>

\* reader.py:692-704: one pass of `for vpRef in markup.viewpoints`; a
\* KeyError of buildViewpoint skips the viewpoint, any other exception
\* leaves readBcfFile
buildViewpointStep ==
    /\ pc = "Viewpoints"
    /\ vpIdx <= Len(markup.viewpoints)
    /\ LET exc == excViewpointOf(markup.viewpoints[vpIdx])
       IN  IF exc = "KeyError"
           THEN /\ diag' = diag \cup {Diag("viewpoint skipped", topicIdx, vpIdx)}
                /\ vpIdx' = vpIdx + 1
                /\ UNCHANGED <<pc, markup, result, built>>
           ELSE IF exc # NoExc
           THEN /\ result' = Raised(exc, "viewpoint")
                /\ pc' = "Aborted"
                /\ UNCHANGED <<markup, vpIdx, built, diag>>
           ELSE /\ markup' = [markup EXCEPT !.viewpoints[vpIdx].viewpoint =
                    buildViewpoint(
                        viewpointFileNamed(markup.viewpoints[vpIdx].file.uri))]
                /\ built' = [built EXCEPT !.viewpoint = @ + 1]
                /\ vpIdx' = vpIdx + 1
                /\ UNCHANGED <<pc, result, diag>>
    /\ UNCHANGED <<versionFile, proj, topicDirectories, topicIdx, bcfDir,
                   vpCount>>
    /\ UNCHANGED <<builderVars, modelVars>>

\* a mutant: the finished markup is inserted at the front of the list
appendMarkupFront ==
    /\ pc = "Viewpoints"
    /\ vpIdx > Len(markup.viewpoints)
    /\ proj' = [proj EXCEPT !.topicList =
                    <<[markup EXCEPT !.containingObject = ProjectRef]>> \o @]
    /\ topicIdx' = topicIdx + 1
    /\ markup' = NoneObj
    /\ pc' = "TopicsBuilt"
    /\ UNCHANGED <<versionFile, topicDirectories, vpIdx, result, bcfDir,
                   built, diag, vpCount>>
    /\ UNCHANGED <<builderVars, modelVars>>

\* reader.py:706-708: the end of the loop body; the local markup is dead
\* until the next pass binds it again
appendMarkup ==
    /\ pc = "Viewpoints"
    /\ vpIdx > Len(markup.viewpoints)
    /\ proj' = [proj EXCEPT !.topicList =
                    Append(@, [markup EXCEPT !.containingObject = ProjectRef])]
    /\ topicIdx' = topicIdx + 1
    /\ markup' = NoneObj
    /\ pc' = "TopicsBuilt"
    /\ UNCHANGED <<versionFile, topicDirectories, vpIdx, result, bcfDir,
                   built, diag, vpCount>>
    /\ UNCHANGED <<builderVars, modelVars>>

\* reader.py:710-712
finish ==
    /\ pc = "TopicsBuilt"
    /\ topicIdx > Len(topicDirectories)
    /\ bcfDir' = "extracted"
    /\ result' = Returned("Project", "")
    /\ pc' = "Ready"
    /\ UNCHANGED <<versionFile, proj, topicDirectories, topicIdx, markup,
                   vpIdx, built, diag, vpCount>>
    /\ UNCHANGED <<builderVars, modelVars>>

LoaderNext ==
    \/ CopySchemasFails
    \/ extractFileToTmp
    \/ checkVersion
    \/ buildProjectStep
    \/ getDirectories
    \/ buildMarkupStep
    \/ buildViewpointStep
    \/ appendMarkup
    \/ finish

Init == LoaderInit /\ BuilderIdle /\ ModelIdle
Next == LoaderNext
Spec == Init /\ [][Next]_vars

(***************************************************************************)
(* Properties of readBcfFile.                                              *)
(***************************************************************************)
NothingBuilt ==
    /\ built = [project |-> 0, markup |-> 0, viewpoint |-> 0]
    /\ proj = NoneObj
    /\ markup = NoneObj

ReturnedProject == result.kind = "returned" /\ result.value = "Project"

\* the version descriptor validates and names a supported version
VersionSupported ==
    /\ versionFile \notin {NotExtracted, MissingFile}
    /\ versionIsValid(versionFile)
    /\ getVersion(versionFile) \in SUPPORTED_VERSIONS

\* C2: when the extracted archive holds no bcf.version, nothing is ever
\* built, no project is returned, and once the version check has run the
\* load is over without a project.
C2_MissingVersionFails ==
    versionFile = MissingFile =>
        /\ NothingBuilt
        /\ ~ReturnedProject
        /\ pc \in {"Extracted", "Aborted"}
        /\ pc = "Aborted" => result.kind \in {"returned", "raised"}
                             /\ result.value # "Project"

C2_Witness ==
    /\ versionFile = MissingFile
    /\ pc = "Aborted"
    /\ result.cause = "no version file"

\* C3: a project is returned, and anything is built, only when the version
\* read from the descriptor is in SUPPORTED_VERSIONS; with any other
\* descriptor the load is over right after the version check.
C3_OnlySupportedVersions ==
    /\ (ReturnedProject \/ ~NothingBuilt) => VersionSupported
    /\ (pc \notin {"Unopened", "Extracted", "Aborted"}) => VersionSupported
    /\ (pc = "Aborted" /\ versionFile # NotExtracted /\ ~VersionSupported)
            => NothingBuilt /\ ~ReturnedProject

C3_Witness ==
    /\ pc = "Aborted"
    /\ versionIsValid(versionFile)
    /\ getVersion(versionFile) = "3.0"
    /\ result.cause = "version unsupported"

\* the next pass of the viewpoint loop meets a viewpoint whose record
\* lacks a required field
AtMissingField ==
    /\ pc = "Viewpoints"
    /\ vpIdx <= Len(markup.viewpoints)
    /\ excViewpointOf(markup.viewpoints[vpIdx]) = "KeyError"

allViewpointRefs(p) ==
    {<<t, v>> \in (DOMAIN p.topicList) \X (1..MaxViewpoints) :
        v \in DOMAIN p.topicList[t].viewpoints}

\* C4: a viewpoint whose record lacks a required field is skipped and
\* nothing else: the pass leaves the markup as it is (the reference stays,
\* with no viewpoint), moves on to the next reference and does not end the
\* load; no load ends with the KeyError of a viewpoint; and in the project
\* that is returned each such reference is there without a viewpoint.
C4_SkipStep ==
    AtMissingField =>
        /\ pc' = "Viewpoints"
        /\ vpIdx' = vpIdx + 1
        /\ markup' = markup
        /\ markup.viewpoints[vpIdx].viewpoint = NoneObj
        /\ proj' = proj
        /\ topicIdx' = topicIdx
        /\ result' = Pending

C4_SkipState ==
    /\ ~(result.kind = "raised" /\ result.cause = "viewpoint"
            /\ result.value = "KeyError")
    /\ pc = "Ready" =>
        \A r \in allViewpointRefs(proj) :
            LET vpRef == proj.topicList[r[1]].viewpoints[r[2]]
            IN  excViewpointOf(vpRef) = "KeyError"
                    => vpRef.viewpoint = NoneObj

C4_SkipsOnlyTheViewpoint == [][C4_SkipStep]_vars /\ []C4_SkipState

\* a project was returned that holds a skipped viewpoint, a built one, and
\* a topic after the one with the skipped viewpoint
C4_Witness ==
    /\ pc = "Ready"
    /\ ReturnedProject
    /\ Len(proj.topicList) = 2
    /\ \E v \in DOMAIN proj.topicList[1].viewpoints :
        /\ excViewpointOf(proj.topicList[1].viewpoints[v]) = "KeyError"
        /\ proj.topicList[1].viewpoints[v].viewpoint = NoneObj
    /\ \E r \in allViewpointRefs(proj) :
        proj.topicList[r[1]].viewpoints[r[2]].viewpoint # NoneObj

\* C5: a missing or invalid project descriptor, or markup document of a
\* topic directory, never ends the load.
C5_OptionalFilesDegrade ==
    ~(pc = "Aborted" /\ result.kind = "raised"
        /\ result.cause \in {"project", "markup"})

\* C6: a markup record without its Topic element (or a mandatory field of
\* it) does not end the load: readBcfFile still returns the project.
C6_TopicFailureConfined ==
    ~(pc = "Aborted" /\ result.cause = "markup" /\ result.value = "KeyError")

\* C7: the returned project holds one markup for each enumerated topic
\* directory, in the order of enumeration.
C7_TopicOrder ==
    pc = "Ready" =>
        /\ ReturnedProject
        /\ built.markup = Len(topicDirectories)
        /\ Len(proj.topicList) = Len(topicDirectories)
        /\ \A i \in DOMAIN proj.topicList :
            proj.topicList[i].source = topicDirectories[i]

C7_Witness ==
    /\ pc = "Ready"
    /\ topicDirectories = <<2, 1>>
    /\ Len(proj.topicList) = 2

\* C8: in the returned project only the project has no parent: the Name and
\* ExtensionSchema wrappers and every markup point to the project, and
\* every viewpoint attached to a viewpoint reference points to a parent.
C8_NoOrphans ==
    ReturnedProject =>
        /\ proj.containingObject = NoneObj
        /\ proj.name.containingObject = ProjectRef
        /\ proj.extSchemaSrc.containingObject = ProjectRef
        /\ \A t \in DOMAIN proj.topicList :
            proj.topicList[t].containingObject = ProjectRef
        /\ \A r \in allViewpointRefs(proj) :
            LET vpRef == proj.topicList[r[1]].viewpoints[r[2]]
            IN  vpRef.viewpoint # NoneObj
                    => vpRef.viewpoint.containingObject # NoneObj

\* the phase of a load: the passes of the viewpoint loop belong to the
\* topic that is being built
Phase == IF pc = "Viewpoints" THEN "TopicsBuilt" ELSE pc

PhaseRank(phase) ==
    CASE phase = "Unopened" -> 0
      [] phase = "Extracted" -> 1
      [] phase = "VersionChecked" -> 2
      [] phase = "ProjectBuilt" -> 3
      [] phase = "TopicsBuilt" -> 4
      [] phase = "Ready" -> 5
      [] OTHER -> 6

\* the n of TopicsBuilt(n)
topicsBuilt == IF proj = NoneObj THEN 0 ELSE Len(proj.topicList)

\* C11: a load moves through Unopened, Extracted, VersionChecked,
\* ProjectBuilt, TopicsBuilt(n), Ready in that order, one phase at a time,
\* n growing by one topic at a time from 0, or ends in Aborted; Ready and
\* Aborted are final.  Nothing is built before the version check has
\* passed, no markup before the project exists, and a project is returned
\* and bcfDir is set in Ready only.
C11_Step ==
    /\ pc \notin {"Ready", "Aborted"}
    /\ \/ pc' = "Aborted"
       \/ /\ PhaseRank(Phase') = PhaseRank(Phase) + 1
          /\ Phase' = "TopicsBuilt" => topicsBuilt' = 0
          /\ Phase = "TopicsBuilt" => topicsBuilt' = topicsBuilt
       \/ /\ Phase = "TopicsBuilt"
          /\ Phase' = "TopicsBuilt"
          /\ topicsBuilt' \in {topicsBuilt, topicsBuilt + 1}

C11_State ==
    /\ ~NothingBuilt =>
            VersionSupported /\ PhaseRank(Phase) >= 2
    /\ PhaseRank(Phase) \in 3..5 => proj # NoneObj
    /\ (built.markup > 0 \/ markup # NoneObj \/ topicsBuilt > 0) =>
            proj # NoneObj /\ PhaseRank(Phase) >= 4
    /\ ReturnedProject <=> pc = "Ready"
    /\ bcfDir # "" <=> pc = "Ready"
    /\ pc = "Aborted" => result.kind \in {"returned", "raised"}
                         /\ result.value # "Project"
    /\ pc \notin {"Ready", "Aborted"} => result = Pending

C11_PhaseOrder == [][C11_Step]_vars /\ []C11_State

\* a load that went through every phase and built two topics and a
\* viewpoint
C11_Witness ==
    /\ pc = "Ready"
    /\ bcfDir = "extracted"
    /\ topicsBuilt = 2
    /\ built.viewpoint > 0

\* C13: a viewpoint reference that names no viewpoint file, or whose file
\* is not there or holds a malformed identifier, never ends the load: no
\* load is over with an exception of the viewpoint loop.
C13_UnresolvableViewpointSkipped ==
    ~(pc = "Aborted" /\ result.kind = "raised" /\ result.cause = "viewpoint"
        /\ result.value \in {"AttributeError", "ResourceError", "ValueError"})

(***************************************************************************)
(* The builders on their own: a builder is applied once to a record drawn  *)
(* from the records below.                                                 *)
(***************************************************************************)
Restrict(d, keys) == [k \in keys |-> d[k]]

\* the sets of optional keys that leave out or keep at most one key
FewOrMost(keys) ==
    {K \in SUBSET keys :
        Cardinality(K) <= 1 \/ Cardinality(K) >= Cardinality(keys) - 1}

okDocRef ==
    ("@Guid" :> "b2") @@ ("@isExternal" :> TRUE) @@
    [ReferencedDocument |-> "doc.pdf", Description |-> "plan"]

okBimSnippet ==
    ("@SnippetType" :> "clash") @@
    [Reference |-> "snippet.xml", ReferenceSchema |-> "snippet.xsd"]

topicOptions ==
    ("@TopicStatus" :> "Open") @@ ("@TopicType" :> "Issue") @@
    [Priority |-> "High", ModifiedDate |-> "20190501T100000",
     ModifiedAuthor |-> "c@d.e", Index |-> 0,
     DueDate |-> "2019-05-01T10:00:00", AssignedTo |-> "f@g.h",
     Stage |-> "Design", Description |-> "walls clash",
     BimSnippet |-> okBimSnippet, Labels |-> <<"arch">>,
     DocumentReference |-> <<okDocRef, [Description |-> "plan"]>>,
     RelatedTopic |-> <<("@Guid" :> "A1")>>,
     ReferenceLink |-> <<"http://x">>]

topicInputs ==
    {okTopic @@ Restrict(topicOptions, K) :
        K \in FewOrMost(DOMAIN topicOptions)}
        \cup {[Title |-> "Clash"]}

commentOptions ==
    [ModifiedAuthor |-> "c@d.e", ModifiedDate |-> "20190501T100000",
     Viewpoint |-> ("@Guid" :> "a1")]

commentInputs ==
    {okComment @@ Restrict(commentOptions, K) :
        K \in SUBSET DOMAIN commentOptions}
        \cup {[Comment |-> "no author"]}

docRefInputs == {Restrict(okDocRef, K) : K \in SUBSET DOMAIN okDocRef}

fileOptions ==
    ("@IfcProject" :> "0M6o7Znnv7hxsbWgeu7oQq") @@
    ("@IfcSpatialStructureElement" :> "23B$bNeGHFQuMYJzvUX0FD") @@
    ("@isExternal" :> FALSE) @@
    [Filename |-> "a.ifc", Date |-> "2019-05-01T10:00:00",
     Reference |-> "../a.ifc"]

fileInputs == {Restrict(fileOptions, K) : K \in SUBSET DOMAIN fileOptions}

viewpointReferenceOptions ==
    [Viewpoint |-> "ortho.bcfv", Snapshot |-> "snapshot.png", Index |-> 0]

viewpointReferenceInputs ==
    {("@Guid" :> "a1") @@ Restrict(viewpointReferenceOptions, K) :
        K \in SUBSET DOMAIN viewpointReferenceOptions}
        \cup {[Index |-> 0]}

componentOptions ==
    ("@IfcGuid" :> "0M6o7Znnv7hxsbWgeu7oQq") @@
    [OriginatingSystem |-> "cad", AuthoringToolId |-> "42"]

componentInputs ==
    {Restrict(componentOptions, K) : K \in SUBSET DOMAIN componentOptions}

builderComments == {okComment} \cup {commentOn(g) : g \in GuidTexts}

builderViewpointDicts == {("@Guid" :> g) : g \in GuidTexts}

markupInputs ==
    {MissingFile, [Comment |-> <<okComment>>]}
        \cup {[Topic |-> okTopic, Comment |-> cs, Viewpoints |-> vs] :
                cs \in SeqsUpTo(builderComments, MaxComments),
                vs \in SeqsUpTo(builderViewpointDicts, MaxViewpoints)}

okComponents ==
    [Visibility |-> ("@DefaultVisibility" :> FALSE),
     Selection |-> [Component |-> <<componentOptions>>]]

\* colour records: with a colour value, with an empty one, and with none
colourDicts ==
    {("@Color" :> "FF0000") @@ [Component |-> <<componentOptions>>],
     ("@Color" :> "") @@ [Component |-> <<componentOptions>>],
     [Component |-> <<componentOptions>>],
     ("@Color" :> "00FF00")}

\* a section that is present and has no content
emptySection == [key \in {} |-> ""]

coloringSections ==
    {emptySection}
        \cup {[Color |-> cs] : cs \in SeqsUpTo(colourDicts, MaxColours) \ {<<>>}}

componentsOptions ==
    [ViewSetupHints |-> ("@SpacesVisible" :> TRUE),
     Selection |-> [Component |-> <<componentOptions>>]]

componentsInputs ==
    {[Visibility |-> vis] @@ Restrict(componentsOptions, K) @@ col :
        vis \in {emptySection, ("@DefaultVisibility" :> FALSE),
                 [Exceptions |-> [Component |-> <<componentOptions>>]]},
        K \in SUBSET DOMAIN componentsOptions,
        col \in {emptySection} \cup
                {[Coloring |-> c] : c \in coloringSections}}
        \cup {[Selection |-> [Component |-> <<componentOptions>>]]}

viewpointOptions ==
    [Components |-> okComponents,
     OrthogonalCamera |-> okOrthogonalCamera,
     PerspectiveCamera |-> okPerspectiveCamera,
     Lines |-> [Line |-> <<[StartPoint |-> okPoint, EndPoint |-> okPoint]>>],
     ClippingPlanes |->
        [ClippingPlane |-> <<[Location |-> okPoint, Direction |-> okPoint]>>],
     Bitmap |-> <<[Bitmap |-> "PNG", Reference |-> "b.png",
                   Location |-> okPoint, Normal |-> okPoint, Up |-> okPoint,
                   Height |-> 2]>>]

viewpointInputs ==
    {("@Guid" :> "a1") @@ Restrict(viewpointOptions, K) :
        K \in SUBSET DOMAIN viewpointOptions}
        \cup {viewpointFileNamed(f) : f \in viewpointFileNames}

BuilderInit ==
    /\ LoaderInit
    /\ ModelIdle
    /\ bOut = NoneObj
    /\ bExc = NoExc
    /\ bDone = FALSE
    /\ \/ bKind = "Markup" /\ bIn \in markupInputs
       \/ bKind = "Topic" /\ bIn \in topicInputs
       \/ bKind = "Comment" /\ bIn \in commentInputs
       \/ bKind = "DocRef" /\ bIn \in docRefInputs
       \/ bKind = "File" /\ bIn \in fileInputs
       \/ bKind = "ViewpointReference" /\ bIn \in viewpointReferenceInputs
       \/ bKind = "Component" /\ bIn \in componentInputs
       \/ bKind = "Components" /\ bIn \in componentsInputs
       \/ bKind = "Viewpoint" /\ bIn \in viewpointInputs

\* the call of one builder has raised exc, or returned out
applied(exc, out) ==
    /\ ~bDone
    /\ bDone' = TRUE
    /\ bExc' = exc
    /\ bOut' = IF exc = NoExc THEN out ELSE NoneObj
    /\ UNCHANGED <<bKind, bIn>>
    /\ UNCHANGED <<loaderVars, modelVars>>

applyBuildMarkup ==
    /\ bKind = "Markup"
    /\ applied(excMarkup(bIn), buildMarkup(bIn))

applyBuildTopic ==
    /\ bKind = "Topic"
    /\ applied(excTopic(bIn), buildTopic(bIn))

applyBuildComment ==
    /\ bKind = "Comment"
    /\ applied(excComment(bIn), buildComment(bIn))

applyBuildDocRef ==
    /\ bKind = "DocRef"
    /\ applied(excDocRef(bIn), buildDocRef(bIn))

applyBuildFile ==
    /\ bKind = "File"
    /\ applied(excFile(bIn), buildFile(bIn))

applyBuildViewpointReference ==
    /\ bKind = "ViewpointReference"
    /\ applied(excViewpointReference(bIn), buildViewpointReference(bIn))

applyBuildComponent ==
    /\ bKind = "Component"
    /\ applied(NoExc, buildComponent(bIn))

applyBuildComponents ==
    /\ bKind = "Components"
    /\ applied(excComponents(bIn), buildComponents(bIn))

applyBuildViewpoint ==
    /\ bKind = "Viewpoint"
    /\ applied(excViewpoint(bIn), buildViewpoint(bIn))

BuilderNext ==
    \/ applyBuildMarkup
    \/ applyBuildTopic
    \/ applyBuildComment
    \/ applyBuildDocRef
    \/ applyBuildFile
    \/ applyBuildViewpointReference
    \/ applyBuildComponent
    \/ applyBuildComponents
    \/ applyBuildViewpoint

BuilderSpec == BuilderInit /\ [][BuilderNext]_vars

(***************************************************************************)
(* Properties of the builders.                                             *)
(***************************************************************************)
Built(kind) == bDone /\ bKind = kind /\ bExc = NoExc

\* the comment records of the markup record that was built
commentDicts == getOptionalFromDict(bIn, "Comment", <<>>)

\* the viewpoint references of the built markup with the identifier that
\* comment record c names
referencesNamedBy(c) ==
    {j \in DOMAIN bOut.viewpoints :
        bOut.viewpoints[j].id = UUID(c["Viewpoint"]["@Guid"])}

\* C1: buildMarkup returns for a record that has its Topic, whatever its
\* comments name; a comment that names a viewpoint identifier holds the
\* element of the markup's viewpoint references with that identifier, not
\* the placeholder, when there is one, and None when there is none; a
\* comment that names none holds None.
C1_CommentViewpointResolved ==
    (bDone /\ bKind = "Markup" /\ bIn # MissingFile /\ "Topic" \in DOMAIN bIn)
    => /\ bExc = NoExc
       /\ Len(bOut.comments) = Len(commentDicts)
       /\ \A i \in DOMAIN commentDicts :
            LET c == commentDicts[i]
                v == bOut.comments[i].viewpoint
            IN  IF "Viewpoint" \in DOMAIN c
                THEN IF referencesNamedBy(c) = {}
                     THEN v = NoneObj
                     ELSE v.kind = "element" /\ v.slot \in referencesNamedBy(c)
                ELSE v = NoneObj

\* a markup with a comment that resolves to the second viewpoint reference,
\* through an identifier spelled in the other case, and a comment that
\* names an identifier no viewpoint reference has
C1_Witness ==
    /\ Built("Markup")
    /\ Len(bOut.comments) = 2
    /\ Len(bOut.viewpoints) = 2
    /\ "Viewpoint" \in DOMAIN bIn.Comment[1]
    /\ bIn.Comment[1]["Viewpoint"]["@Guid"] = "A1"
    /\ bIn.Viewpoints[2]["@Guid"] = "a1"
    /\ bOut.comments[1].viewpoint = [kind |-> "element", slot |-> 2]
    /\ "Viewpoint" \in DOMAIN bIn.Comment[2]
    /\ bIn.Comment[2]["Viewpoint"]["@Guid"] = "c3"
    /\ bOut.comments[2].viewpoint = NoneObj

\* C9: a built viewpoint never holds both an orthogonal and a perspective
\* camera.
C9_OneCamera ==
    Built("Viewpoint") => ~(bOut.oCamera # NoneObj /\ bOut.pCamera # NoneObj)

Absent(key) == key \notin DOMAIN bIn

\* C10: a builder stores the default for every optional field its record
\* lacks: "" for a text, -1 for an index, the schema's default for a flag,
\* None for a sub-object.
C10_Defaults ==
    /\ Built("Topic") =>
        /\ Absent("@TopicStatus") => bOut.status = ""
        /\ Absent("@TopicType") => bOut.type = ""
        /\ Absent("Priority") => bOut.priority = ""
        /\ Absent("ModifiedAuthor") => bOut.modAuthor = ""
        /\ Absent("AssignedTo") => bOut.assignee = ""
        /\ Absent("Stage") => bOut.stage = ""
        /\ Absent("Description") => bOut.description = ""
        /\ Absent("Index") => bOut.index = -1
        /\ Absent("ModifiedDate") => bOut.modDate = NoneObj
        /\ Absent("DueDate") => bOut.dueDate = NoneObj
        /\ Absent("BimSnippet") => bOut.bimSnippet = NoneObj
        /\ \A i \in DOMAIN bOut.docRefs :
            "Description" \notin DOMAIN bIn.DocumentReference[i]
                => bOut.docRefs[i].description = ""
    /\ Built("Comment") =>
        /\ Absent("ModifiedAuthor") => bOut.modAuthor = ""
        /\ Absent("ModifiedDate") => bOut.modDate = NoneObj
        /\ Absent("Viewpoint") => bOut.viewpoint = NoneObj
    /\ Built("DocRef") =>
        /\ Absent("Description") => bOut.description = ""
        /\ Absent("@isExternal") => bOut.external = FALSE
        /\ Absent("@Guid") => bOut.id = NoneObj
        /\ Absent("ReferencedDocument") => bOut.reference = NoneObj
    /\ Built("File") =>
        /\ Absent("Filename") => bOut.filename = ""
        /\ Absent("@IfcProject") => bOut.ifcProjectId = ""
        /\ Absent("@IfcSpatialStructureElement")
                => bOut.ifcSpatialStructureElement = ""
        /\ Absent("Reference")
                => bOut.reference = [kind |-> "str", text |-> ""]
        /\ Absent("@isExternal") => bOut.external = TRUE
        /\ Absent("Date") => bOut.time = NoneObj
    /\ Built("ViewpointReference") =>
        /\ Absent("Index") => bOut.index = -1
        /\ Absent("Viewpoint") => bOut.file = NoneObj
        /\ Absent("Snapshot") => bOut.snapshot = NoneObj
    /\ Built("Component") =>
        /\ Absent("@IfcGuid") => bOut.ifcId = ""
        /\ Absent("OriginatingSystem") => bOut.originatingSystem = ""
        /\ Absent("AuthoringToolId") => bOut.authoringToolId = ""

\* the record without its coloring section
withoutColoring(d) == Restrict(d, DOMAIN d \ {"Coloring"})

\* C12: the coloring list of built components holds ComponentColour
\* entries only, and components built from a record whose coloring section
\* is present and empty differ from those built from the same record
\* without the section.
C12_Coloring ==
    Built("Components") =>
        /\ \A i \in DOMAIN bOut.colouring :
                bOut.colouring[i].kind = "ComponentColour"
        /\ ("Coloring" \in DOMAIN bIn /\ bIn.Coloring = emptySection)
                => bOut # buildComponents(withoutColoring(bIn))

(***************************************************************************)
(* project.py: the data model in the hands of the editing layer.  Objects  *)
(* that can be reached through more than one name live in `heap`, by       *)
(* address; an argument is an object of the heap or a bare value.          *)
(***************************************************************************)
\* calls and assignments in one session
MaxCalls == 3
\* items a SimpleList is constructed from
MaxData == 2
\* objects on the heap when listSetContainingElement is called
MaxObjects == 2
\* items in one itemList
MaxItems == 2

Obj(address) == [kind |-> "obj", id |-> address]
Str(text) == [kind |-> "str", text |-> text]

NameRef == [kind |-> "ref", to |-> "Name"]
ExtensionSchemaRef == [kind |-> "ref", to |-> "ExtensionSchema"]
MarkupRef(i) == [kind |-> "ref", to |-> "Markup", slot |-> i]
TopicRef == [kind |-> "ref", to |-> "Topic"]

Call(op, exc, value) == [kind |-> "call", op |-> op, exc |-> exc, value |-> value]

\* State.isOriginal
isOriginal(node) == node.state = "ORIGINAL"

\* State.getStateList of a node: its own entry when it is not original
stateListOf(node, ref) ==
    IF isOriginal(node) THEN <<>> ELSE << <<node.state, ref>> >>

\* Markup.getStateList
markupStateList(markupNode, i) == stateListOf(markupNode, MarkupRef(i))

\* `for markup in self.topicList: stateList += markup.getStateList()`
topicStateLists(topicList) ==
    LET from[i \in 1..(Len(topicList) + 1)] ==
            IF i > Len(topicList) THEN <<>>
            ELSE markupStateList(topicList[i], i) \o from[i + 1]
    IN  from[1]

\* a mutant: the project reports itself when any node below it is changed
getStateListAggregated(p) ==
    (IF ~isOriginal(p) \/ ~isOriginal(p.name) \/ ~isOriginal(p.extSchemaSrc)
            \/ topicStateLists(p.topicList) # <<>>
        THEN << <<p.state, ProjectRef>> >> ELSE <<>>)
        \o stateListOf(p.name, NameRef)
        \o stateListOf(p.extSchemaSrc, ExtensionSchemaRef)
        \o topicStateLists(p.topicList)

\* project.py:204-216
getStateList(p) ==
    (IF ~isOriginal(p) THEN << <<p.state, ProjectRef>> >> ELSE <<>>)
        \o stateListOf(p.name, NameRef)
        \o stateListOf(p.extSchemaSrc, ExtensionSchemaRef)
        \o topicStateLists(p.topicList)

\* project.py:87-99: the elements SimpleList.__init__ creates, and the list
SimpleListElements(data, xmlName, containingElement, state) ==
    [i \in DOMAIN data |->
        SimpleElement(data[i], xmlName, containingElement, state)]

SimpleList(data, xmlName, containingElement, state) ==
    [kind |-> "SimpleList", items |-> [i \in DOMAIN data |-> i],
     xmlName |-> xmlName, containingObject |-> containingElement,
     state |-> state, constructed |-> Len(data)]

\* project.py:102-118: the heap and the list after list.append(item)
appendHeap(h, list, item) ==
    IF item.kind # "obj"
    THEN Append(h, SimpleElement(item.text, list.xmlName,
                                 list.containingObject, "ADDED"))
    ELSE [h EXCEPT ![item.id].state = "ADDED"]

append(h, list, item) ==
    [list EXCEPT !.items =
        Append(@, IF item.kind # "obj" THEN Len(h) + 1 ELSE item.id)]

\* project.py:23-27: an item that is no Hierarchy node
excListSetContainingElement(itemList) ==
    IF \E i \in DOMAIN itemList : itemList[i].kind # "obj"
    THEN "ValueError" ELSE NoExc

\* a mutant: one loop that checks an item and sets it, stopping at the
\* first item that is no Hierarchy node
listSetContainingElementEager(h, itemList, containingObject) ==
    LET bad == {i \in DOMAIN itemList : itemList[i].kind # "obj"}
        upTo == IF bad = {} THEN Len(itemList) ELSE Min(bad) - 1
    IN  [a \in DOMAIN h |->
            IF \E i \in 1..upTo : itemList[i].id = a
            THEN [h[a] EXCEPT !.containingObject = containingObject]
            ELSE h[a]]

\* project.py:19-30: the heap after listSetContainingElement
listSetContainingElement(h, itemList, containingObject) ==
    IF Len(itemList) = 0 THEN h
    ELSE IF excListSetContainingElement(itemList) # NoExc THEN h
    ELSE [a \in DOMAIN h |->
            IF \E i \in DOMAIN itemList : itemList[i].id = a
            THEN [h[a] EXCEPT !.containingObject = containingObject]
            ELSE h[a]]

\* the markups and projects readBcfFile hands over
loadedMarkups ==
    {[buildMarkup([Topic |-> okTopic]) EXCEPT !.containingObject = ProjectRef]}

loadedProjects ==
    {[p EXCEPT !.topicList = ms] :
        p \in {Project(NullUUID, "", None)}
                \cup {buildProject(pf) :
                        pf \in {f \in ProjectFiles : f # MissingFile
                                                   /\ excProject(f) = NoExc}},
        ms \in SeqsUpTo(loadedMarkups, MaxTopics)}

\* the nodes of a project, as the editing layer names them
nodeRefs(p) ==
    {ProjectRef, NameRef, ExtensionSchemaRef}
        \cup {MarkupRef(i) : i \in DOMAIN p.topicList}

\* the data the SimpleList is constructed from
dataLists == {SubSeq(<<"arch", "clash">>, 1, n) : n \in 0..MaxData}

ModelInit ==
    /\ LoaderInit
    /\ BuilderIdle
    /\ ret = NoneObj
    /\ calls = 0
    /\ \/ /\ mKind = "Project"
          /\ project \in loadedProjects
          /\ heap = <<>>
          /\ simpleList = NoneObj
       \/ /\ mKind = "SimpleList"
          /\ project = NoneObj
          /\ \E data \in dataLists, state \in {"ORIGINAL", "ADDED"},
                free \in SeqsUpTo({SimpleElement("struct", "Labels", NoneObj,
                                                 "ORIGINAL")}, 1) :
                /\ heap = SimpleListElements(data, "Labels", TopicRef, state)
                            \o free
                /\ simpleList = SimpleList(data, "Labels", TopicRef, state)
       \/ /\ mKind = "Items"
          /\ project = NoneObj
          /\ simpleList = NoneObj
          /\ heap \in [1..MaxObjects ->
                        {SimpleElement("arch", "Labels", co, "ORIGINAL") :
                            co \in {NoneObj, TopicRef}}]

\* the editing layer assigns the state of a node of the project
setState ==
    /\ mKind = "Project"
    /\ calls < MaxCalls
    /\ \E ref \in nodeRefs(project), state \in States :
        /\ project' =
            CASE ref = ProjectRef -> [project EXCEPT !.state = state]
              [] ref = NameRef -> [project EXCEPT !.name.state = state]
              [] ref = ExtensionSchemaRef ->
                    [project EXCEPT !.extSchemaSrc.state = state]
              [] OTHER -> [project EXCEPT !.topicList[ref.slot].state = state]
        /\ project' # project
        /\ ret' = Call("setState", NoExc, <<state, ref>>)
    /\ calls' = calls + 1
    /\ UNCHANGED <<mKind, heap, simpleList>>
    /\ UNCHANGED <<loaderVars, builderVars>>

\* project.py:204-216
callGetStateList ==
    /\ mKind = "Project"
    /\ calls < MaxCalls
    /\ ret' = Call("getStateList", NoExc, getStateList(project))
    /\ calls' = calls + 1
    /\ UNCHANGED <<mKind, project, heap, simpleList>>
    /\ UNCHANGED <<loaderVars, builderVars>>

\* project.py:102-118: a bare value or an object of the heap is appended
callAppend ==
    /\ mKind = "SimpleList"
    /\ calls < MaxCalls
    /\ \E item \in {Str("fire")} \cup {Obj(a) : a \in DOMAIN heap} :
        /\ heap' = appendHeap(heap, simpleList, item)
        /\ simpleList' = append(heap, simpleList, item)
        /\ ret' = Call("append", NoExc, item)
    /\ calls' = calls + 1
    /\ UNCHANGED <<mKind, project>>
    /\ UNCHANGED <<loaderVars, builderVars>>

\* project.py:19-30
callListSetContainingElement ==
    /\ mKind = "Items"
    /\ calls < MaxCalls
    /\ \E itemList \in SeqsUpTo({Str("fire")} \cup {Obj(a) : a \in DOMAIN heap},
                               MaxItems),
          containingObject \in {ProjectRef, TopicRef} :
        /\ heap' = listSetContainingElement(heap, itemList, containingObject)
        /\ ret' = Call("listSetContainingElement",
                       IF Len(itemList) = 0 THEN NoExc
                       ELSE excListSetContainingElement(itemList),
                       <<itemList, containingObject>>)
    /\ calls' = calls + 1
    /\ UNCHANGED <<mKind, project, simpleList>>
    /\ UNCHANGED <<loaderVars, builderVars>>

ModelNext ==
    \/ setState
    \/ callGetStateList
    \/ callAppend
    \/ callListSetContainingElement

ModelSpec == ModelInit /\ [][ModelNext]_vars

(***************************************************************************)
(* Properties of the data model.                                           *)
(***************************************************************************)
Called(op) == ret # NoneObj /\ ret.op = op

\* the step is a call of op
Calls(op) == calls' = calls + 1 /\ ret'.op = op

\* the nodes getStateList visits, in the order it visits them
visitedNodes == <<project, project.name, project.extSchemaSrc>>
                    \o project.topicList

visitedRefs ==
    <<ProjectRef, NameRef, ExtensionSchemaRef>>
        \o [i \in DOMAIN project.topicList |-> MarkupRef(i)]

changedNodes == {i \in DOMAIN visitedNodes : visitedNodes[i].state # "ORIGINAL"}

\* C14: the list getStateList returns holds the entry of the project
\* exactly when the project itself is not original, whatever the states
\* below it, and then the entries of the Name wrapper, the ExtensionSchema
\* wrapper and the markups in the order of topicList, one for each node
\* that is not original; the call changes nothing; for a project as
\* readBcfFile hands it over the project, Name and ExtensionSchema have no
\* entry.
C14_Step == Calls("getStateList") => <<project, heap, simpleList>>' =
                                        <<project, heap, simpleList>>

C14_State ==
    Called("getStateList") =>
        /\ (\E i \in DOMAIN ret.value :
                ret.value[i] = <<project.state, ProjectRef>>)
                <=> project.state # "ORIGINAL"
        /\ Len(ret.value) = Cardinality(changedNodes)
        /\ \A i \in changedNodes :
            ret.value[Cardinality({j \in changedNodes : j <= i})]
                = <<visitedNodes[i].state, visitedRefs[i]>>
        /\ project \in loadedProjects =>
            \A i \in DOMAIN ret.value :
                ret.value[i][2] \notin
                    {ProjectRef, NameRef, ExtensionSchemaRef}

C14_StateList == [][C14_Step]_vars /\ []C14_State

\* the project is original while its Name wrapper and its second markup
\* are not
C14_Witness ==
    /\ Called("getStateList")
    /\ project.state = "ORIGINAL"
    /\ Len(project.topicList) = 2
    /\ ret.value = << <<"MODIFIED", NameRef>>, <<"DELETED", MarkupRef(2)>> >>

\* C15: append grows the list by one element, placed last, whose state is
\* ADDED (a bare value in a new SimpleElement with the list's xmlName and
\* containing object, a SimpleElement as it is); the elements the list held
\* and the list's own state stay as they were; so in a list constructed as
\* ORIGINAL the constructed elements are ORIGINAL and the appended ones
\* ADDED.
C15_Step ==
    Calls("append") =>
        LET n == Len(simpleList.items)
            last == heap'[simpleList'.items[n + 1]]
        IN  /\ Len(simpleList'.items) = n + 1
            /\ last.state = "ADDED"
            /\ ret'.value.kind = "str" =>
                last = SimpleElement(ret'.value.text, simpleList.xmlName,
                                     simpleList.containingObject, "ADDED")
            /\ ret'.value.kind = "obj" =>
                /\ simpleList'.items[n + 1] = ret'.value.id
                /\ last = [heap[ret'.value.id] EXCEPT !.state = "ADDED"]
            /\ \A i \in 1..n :
                /\ simpleList'.items[i] = simpleList.items[i]
                /\ heap'[simpleList.items[i]] = heap[simpleList.items[i]]
            /\ simpleList'.state = simpleList.state
            /\ simpleList'.xmlName = simpleList.xmlName
            /\ simpleList'.containingObject = simpleList.containingObject

C15_State ==
    (mKind = "SimpleList" /\ simpleList.state = "ORIGINAL") =>
        \A i \in DOMAIN simpleList.items :
            heap[simpleList.items[i]].state =
                IF i <= simpleList.constructed THEN "ORIGINAL" ELSE "ADDED"

C15_AppendFrame == [][C15_Step]_vars /\ []C15_State

\* the items listSetContainingElement was called on
calledItems == ret.value[1]

\* C16: listSetContainingElement raises ValueError and changes no object
\* when an item of the list is no Hierarchy node; otherwise every object of
\* the list has the given containing object afterwards and no other object
\* is changed; on the empty list nothing is changed.
C16_Step ==
    Calls("listSetContainingElement") =>
        LET itemList == ret'.value[1]
            containingObject == ret'.value[2]
            objects == {itemList[i].id :
                            i \in {j \in DOMAIN itemList :
                                        itemList[j].kind = "obj"}}
        IN  /\ <<project, simpleList>>' = <<project, simpleList>>
            /\ IF \E i \in DOMAIN itemList : itemList[i].kind # "obj"
               THEN ret'.exc = "ValueError" /\ heap' = heap
               ELSE /\ ret'.exc = NoExc
                    /\ DOMAIN heap' = DOMAIN heap
                    /\ \A a \in objects :
                        heap'[a] = [heap[a] EXCEPT
                                        !.containingObject = containingObject]
                    /\ \A a \in DOMAIN heap \ objects : heap'[a] = heap[a]
            /\ itemList = <<>> => heap' = heap

C16_AllOrNothing == [][C16_Step]_vars

\* the call was given an object and then a bare value, and the object has
\* not got the containing object of the call
C16_Witness ==
    /\ Called("listSetContainingElement")
    /\ ret.exc = "ValueError"
    /\ Len(calledItems) = 2
    /\ calledItems[1] = Obj(1)
    /\ calledItems[2].kind = "str"
    /\ heap[1].containingObject # ret.value[2]

=============================================================================
